---- MODULE Spec2Model ----
(***************************************************************************)
(* Model of docx2mp3.py: chapter segmentation (read_txt_chapters,          *)
(* read_docx_chapters), TTS chunking (split_chunks) and the build pipeline *)
(* (synth_chapter, build).                                                 *)
(*                                                                         *)
(* A Python str is a sequence of one-character strings, so that strip,     *)
(* split, the regular expressions and the f-strings are computed the way   *)
(* the code computes them.                                                 *)
(***************************************************************************)
EXTENDS Integers, Sequences, FiniteSets, TLC

VARIABLES
    pc,             \* position of the running function
    src,            \* the input document: [suffix, txt, paras]
    chapters,       \* List[Chapter] returned by read_chapters
    text,           \* split_chunks: the text argument
    max_chars,      \* split_chunks: the max_chars argument
    parts,          \* split_chunks / synth_chapter: the list of parts
    per_chapter,    \* build: per_chapter argument
    chapter_gap_ms, \* build: chapter_gap_ms argument
    ci,             \* build: idx of the chapter loop (0-based)
    idx,            \* synth_chapter: idx of the part loop (0-based)
    assembled,      \* synth_chapter: the chapter's AudioSegment
    combined,       \* build: the combined AudioSegment
    tmpfs,          \* files of the TemporaryDirectory: records [path, data]
    outfs,          \* files of outdir: records [path, data]
    calls,          \* history: the synth_to_file calls, in the order issued
    tracks          \* history: the AudioSegment synth_chapter returned, per chapter

vars == <<pc, src, chapters, text, max_chars, parts, per_chapter, chapter_gap_ms,
          ci, idx, assembled, combined, tmpfs, outfs, calls, tracks>>

(***************************************************************************)
(* Characters and strings                                                  *)
(***************************************************************************)
NL == "\n"
SP == " "

UpperLetters == <<"A","B","C","D","E","F","G","H","I","J","K","L","M",
                  "N","O","P","Q","R","S","T","U","V","W","X","Y","Z">>
LowerLetters == <<"a","b","c","d","e","f","g","h","i","j","k","l","m",
                  "n","o","p","q","r","s","t","u","v","w","x","y","z">>
DigitChars == <<"0","1","2","3","4","5","6","7","8","9">>

Range(f) == {f[i] : i \in DOMAIN f}
SetMin(S) == CHOOSE x \in S : \A y \in S : x <= y
SetMax(S) == CHOOSE x \in S : \A y \in S : x >= y

\* \s of re and the characters str.strip() removes (those of the model's alphabet)
IsSpace(c) == c \in {SP, NL, "\t"}
IsDigit(c) == c \in Range(DigitChars)
IsAlpha(c) == c \in Range(UpperLetters) \cup Range(LowerLetters)
\* \w of re
IsWord(c) == IsAlpha(c) \/ IsDigit(c) \/ c = "_"

\* str.lower() of one character, as re.IGNORECASE compares
LowerChar(c) ==
    IF c \in Range(UpperLetters)
    THEN LowerLetters[CHOOSE i \in 1..26 : UpperLetters[i] = c]
    ELSE c
Lower(s) == [i \in 1..Len(s) |-> LowerChar(s[i])]

strip(s) ==
    LET keep == {i \in 1..Len(s) : ~IsSpace(s[i])}
    IN  IF keep = {} THEN <<>> ELSE SubSeq(s, SetMin(keep), SetMax(keep))

rstrip(s) ==
    LET keep == {i \in 1..Len(s) : ~IsSpace(s[i])}
    IN  IF keep = {} THEN <<>> ELSE SubSeq(s, 1, SetMax(keep))

\* sep.join(ss)
RECURSIVE Join(_, _)
Join(ss, sep) ==
    IF ss = <<>> THEN <<>>
    ELSE IF Len(ss) = 1 THEN ss[1]
    ELSE ss[1] \o sep \o Join(Tail(ss), sep)

\* s.split(sep), sep a non-empty string
RECURSIVE Split(_, _)
Split(s, sep) ==
    LET n == Len(sep)
        hits == {i \in 1..(Len(s) - n + 1) : SubSeq(s, i, i + n - 1) = sep}
    IN  IF hits = {} THEN <<s>>
        ELSE LET i == SetMin(hits)
             IN  <<SubSeq(s, 1, i - 1)>> \o Split(SubSeq(s, i + n, Len(s)), sep)

\* s.splitlines(), for texts whose only line boundary is "\n"
RECURSIVE splitlines(_)
splitlines(s) ==
    IF s = <<>> THEN <<>>
    ELSE LET hits == {i \in 1..Len(s) : s[i] = NL}
         IN  IF hits = {} THEN <<s>>
             ELSE LET i == SetMin(hits)
                  IN  <<SubSeq(s, 1, i - 1)>> \o splitlines(SubSeq(s, i + 1, Len(s)))

\* h in s
Contains(s, h) ==
    \E i \in 1..(Len(s) - Len(h) + 1) : SubSeq(s, i, i + Len(h) - 1) = h

\* str(n) for n >= 0
RECURSIVE IntToStr(_)
IntToStr(n) ==
    IF n < 10 THEN <<DigitChars[n + 1]>>
    ELSE IntToStr(n \div 10) \o <<DigitChars[(n % 10) + 1]>>

\* f"{n:0{w}d}" for n >= 0
ZeroPad(n, w) ==
    LET d == IntToStr(n)
    IN  IF Len(d) >= w THEN d ELSE [i \in 1..(w - Len(d)) |-> "0"] \o d

\* re.sub(r"\n{3,}", "\n\n", s)
RECURSIVE collapse_newlines(_)
collapse_newlines(s) ==
    LET hits == {i \in 1..(Len(s) - 2) : s[i] = NL /\ s[i+1] = NL /\ s[i+2] = NL}
    IN  IF hits = {} THEN s
        ELSE LET i == SetMin(hits)
                 rest == {j \in i..Len(s) : s[j] # NL}
                 e == IF rest = {} THEN Len(s) + 1 ELSE SetMin(rest)
             IN  SubSeq(s, 1, i - 1) \o <<NL, NL>>
                   \o collapse_newlines(SubSeq(s, e, Len(s)))

(***************************************************************************)
(* slugify                                                                 *)
(***************************************************************************)
\* [A-Za-z0-9_.-]
IsSafe(c) == IsAlpha(c) \/ IsDigit(c) \/ c \in {"_", ".", "-"}
\* membership of c in the character class of a pattern of slugify
InClass(c, cls) == IF cls = "unsafe" THEN ~IsSafe(c) ELSE c = "_"

\* re.sub(r"[C]+", "_", s) for the character class C named cls
RECURSIVE SubRuns(_, _)
SubRuns(s, cls) ==
    LET hits == {i \in 1..Len(s) : InClass(s[i], cls)}
    IN  IF hits = {} THEN s
        ELSE LET i == SetMin(hits)
                 rest == {j \in i..Len(s) : ~InClass(s[j], cls)}
                 e == IF rest = {} THEN Len(s) + 1 ELSE SetMin(rest)
             IN  SubSeq(s, 1, i - 1) \o <<"_">> \o SubRuns(SubSeq(s, e, Len(s)), cls)

\* s.strip("._")
strip_dots(s) ==
    LET keep == {i \in 1..Len(s) : s[i] \notin {".", "_"}}
    IN  IF keep = {} THEN <<>> ELSE SubSeq(s, SetMin(keep), SetMax(keep))

\* lines 43-47
slugify(name) ==
    LET safe1 == SubRuns(strip(name), "unsafe")
        safe2 == strip_dots(SubRuns(safe1, "underscore"))
    IN  IF safe2 # <<>> THEN safe2 ELSE <<"c","h","a","p","t","e","r">>

(***************************************************************************)
(* Chapter reading                                                         *)
(***************************************************************************)
\* class Chapter, lines 64-67
Chapter(title, t) == [title |-> title, text |-> t]

\* the keywords of the patterns of lines 99 and 137
Keywords == { <<"L","u","k","u">>, <<"C","h","a","p","t","e","r">>, <<"O","s","a">> }

\* s starts with kw, compared as re.IGNORECASE compares
StartsWithCI(s, kw) ==
    Len(s) >= Len(kw) /\ Lower(SubSeq(s, 1, Len(kw))) = Lower(kw)

\* ^kw\b matches s
MatchWordB(s, kw) ==
    StartsWithCI(s, kw) /\ (Len(s) = Len(kw) \/ ~IsWord(s[Len(kw) + 1]))

\* ^kw\s+\d+ matches s
MatchNumbered(s, kw) ==
    /\ StartsWithCI(s, kw)
    /\ \E j \in (Len(kw) + 2)..Len(s) :
          /\ IsDigit(s[j])
          /\ \A i \in (Len(kw) + 1)..(j - 1) : IsSpace(s[i])

\* line 137: re.match(r"^(Luku\s+\d+|Chapter\s+\d+|Osa\s+\d+|Luku\b|Chapter\b|Osa\b)", line, re.I)
is_trigger_line(line) ==
    \E kw \in Keywords : MatchNumbered(line, kw) \/ MatchWordB(line, kw)

\* line 98: any(h in style for h in ("Heading 1", "Heading 2", "Otsikko 1", "Otsikko 2"))
HeadingStyles ==
    { <<"H","e","a","d","i","n","g"," ","1">>, <<"H","e","a","d","i","n","g"," ","2">>,
      <<"O","t","s","i","k","k","o"," ","1">>, <<"O","t","s","i","k","k","o"," ","2">> }
is_heading(style) == \E h \in HeadingStyles : Contains(style, h)

\* line 99: re.match(r"^(Luku|Chapter|Osa)\b", text, re.I)
is_luku_like(t) == \E kw \in Keywords : MatchWordB(t, kw)

\* lines 98-100: whether an item of a DOCX document starts a chapter
is_trigger_item(item) == is_heading(item.style) \/ is_luku_like(item.text)

Untitled == <<"U","n","t","i","t","l","e","d">>
Book == <<"B","o","o","k">>
\* f"Chapter {n}"
ChapterN(n) == <<"C","h","a","p","t","e","r"," ">> \o IntToStr(n)

\* The state of the loops of lines 97-107 and 136-144. current_title is <<>>
\* for None: its one read, "current_title or ...", takes None and "" alike.
Acc(chs, title, buffer) == [chapters |-> chs, current_title |-> title, buffer |-> buffer]

\* flush of lines 128-134 emitting the chapter whatever its content
flush_txt_keep_empty(acc) ==
    Acc(Append(acc.chapters,
               Chapter(IF acc.current_title # <<>> THEN acc.current_title
                       ELSE ChapterN(Len(acc.chapters) + 1),
                       strip(Join(acc.buffer, <<NL>>)))),
        <<>>, <<>>)
\* flush of read_txt_chapters, lines 128-134
flush_txt(acc) ==
    LET content == strip(Join(acc.buffer, <<NL>>))
    IN  Acc(IF content # <<>>
            THEN Append(acc.chapters,
                        Chapter(IF acc.current_title # <<>> THEN acc.current_title
                                ELSE ChapterN(Len(acc.chapters) + 1),
                                content))
            ELSE acc.chapters,
            <<>>, <<>>)

\* flush of read_docx_chapters, lines 89-95
flush_docx(acc) ==
    LET content == strip(Join(acc.buffer, <<NL, NL>>))
    IN  Acc(IF content # <<>>
            THEN Append(acc.chapters,
                        Chapter(IF acc.current_title # <<>> THEN acc.current_title
                                ELSE Untitled,
                                content))
            ELSE acc.chapters,
            <<>>, <<>>)

\* lines 138-140 without the flush: the buffered lines run on into the next chapter
on_trigger_txt_noflush(acc, line) == [acc EXCEPT !.current_title = strip(line)]
\* lines 138-140: a trigger line
on_trigger_txt(acc, line) ==
    LET a == IF acc.buffer # <<>> THEN flush_txt(acc) ELSE acc
    IN  [a EXCEPT !.current_title = strip(line)]

\* lines 136-142: the loop over the lines
RECURSIVE txt_loop(_, _)
txt_loop(lines, acc) ==
    IF lines = <<>> THEN acc
    ELSE LET line == Head(lines)
         IN  IF is_trigger_line(line)
             THEN txt_loop(Tail(lines), on_trigger_txt(acc, line))
             ELSE txt_loop(Tail(lines), [acc EXCEPT !.buffer = Append(@, line)])

\* lines 146-147
txt_fallback(chs, txt) ==
    IF chs = <<>> THEN <<Chapter(Book, strip(collapse_newlines(txt)))>> ELSE chs

\* read_txt_chapters, lines 115-148, of a file whose content is txt
read_txt_chapters(txt) ==
    LET ls == splitlines(txt)
        lines == [i \in 1..Len(ls) |-> rstrip(ls[i])]
        a == txt_loop(lines, Acc(<<>>, <<>>, <<>>))
        b == IF a.buffer # <<>> THEN flush_txt(a) ELSE a
    IN  txt_fallback(b.chapters, txt)

\* lines 78-83: (style, text) of the paragraphs whose stripped text is non-empty
RECURSIVE docx_items(_)
docx_items(paras) ==
    IF paras = <<>> THEN <<>>
    ELSE LET t == strip(Head(paras).text)
         IN  (IF t # <<>> THEN <<[style |-> Head(paras).style, text |-> t]>> ELSE <<>>)
               \o docx_items(Tail(paras))

\* lines 101-103: a trigger item
on_trigger_docx(acc, item) ==
    LET a == IF acc.buffer # <<>> THEN flush_docx(acc) ELSE acc
    IN  [a EXCEPT !.current_title = item.text]

\* lines 97-105: the loop over the items
RECURSIVE docx_loop(_, _)
docx_loop(items, acc) ==
    IF items = <<>> THEN acc
    ELSE LET item == Head(items)
         IN  IF is_trigger_item(item)
             THEN docx_loop(Tail(items), on_trigger_docx(acc, item))
             ELSE docx_loop(Tail(items), [acc EXCEPT !.buffer = Append(@, item.text)])

\* lines 110-112
docx_fallback(chs, items) ==
    IF chs = <<>>
    THEN <<Chapter(Book,
              strip(collapse_newlines(
                  Join([i \in 1..Len(items) |-> items[i].text], <<NL, NL>>))))>>
    ELSE chs

\* read_docx_chapters, lines 69-113, of a document whose paragraphs are paras
read_docx_chapters(paras) ==
    LET items == docx_items(paras)
        a == docx_loop(items, Acc(<<>>, <<>>, <<>>))
        b == IF a.buffer # <<>> THEN flush_docx(a) ELSE a
    IN  docx_fallback(b.chapters, items)

DotDocx == <<".","d","o","c","x">>
DotTxt == <<".","t","x","t">>

\* line 152: path.suffix.lower() == ".docx"
is_docx(s) == Lower(s.suffix) = DotDocx

\* read_chapters, lines 150-154
read_chapters(s) ==
    IF is_docx(s)
    THEN read_docx_chapters(s.paras)
    ELSE read_txt_chapters(s.txt)

(***************************************************************************)
(* split_chunks                                                            *)
(***************************************************************************)
\* [.!?...] of the sentence pattern
\* the character U+2026 (horizontal ellipsis)
ELLIPSIS == "U+2026"
Terminal == {".", "!", "?", ELLIPSIS}

\* re.split(r"(?<=[.!?...])\s+", para)
RECURSIVE split_sentences(_)
split_sentences(para) ==
    LET hits == {i \in 2..Len(para) : para[i-1] \in Terminal /\ IsSpace(para[i])}
    IN  IF hits = {} THEN <<para>>
        ELSE LET i == SetMin(hits)
                 rest == {j \in i..Len(para) : ~IsSpace(para[j])}
                 e == IF rest = {} THEN Len(para) + 1 ELSE SetMin(rest)
             IN  <<SubSeq(para, 1, i - 1)>> \o split_sentences(SubSeq(para, e, Len(para)))

\* A part of the list split_chunks builds. s is the chunk; the other fields
\* record where it came from and are read by no operation of the program:
\*   kind  "para" (line 170), "buf" (lines 182, 190) or "slice" (line 187)
\*   para  number of the paragraph in text.split("\n\n")
\*   first number of the chunk's first sentence in the paragraph's sentences
\*   k     number of the slice within its sentence (0 when not a slice)
\*   n     number of slices of its sentence (0 when not a slice)
Part(s, kind, para, first, k, n) ==
    [s |-> s, kind |-> kind, para |-> para, first |-> first, k |-> k, n |-> n]

\* the condition of line 178, tightened so that a sentence ending exactly at
\* max_chars starts a new chunk
fits_strict(buf, s, mc) == Len(buf) + 1 + Len(s) < mc
\* line 178
fits(buf, s, mc) == Len(buf) + 1 + Len(s) <= mc

\* line 179 with the sentence dropped when the buffer is non-empty
buf_add_drop(buf, s) == IF buf # <<>> THEN buf ELSE s
\* line 179
buf_add(buf, s) == IF buf # <<>> THEN strip(buf \o <<SP>> \o s) ELSE s

\* lines 186-187 with a slice one character too long
RECURSIVE hard_slices_long(_, _)
hard_slices_long(s, mc) ==
    IF Len(s) = 0 THEN <<>>
    ELSE IF Len(s) <= mc + 1 THEN <<s>>
    ELSE <<SubSeq(s, 1, mc + 1)>> \o hard_slices_long(SubSeq(s, mc + 2, Len(s)), mc)
\* lines 186-187: [s[i : i + max_chars] for i in range(0, len(s), max_chars)]
RECURSIVE hard_slices(_, _)
hard_slices(s, mc) ==
    IF Len(s) = 0 THEN <<>>
    ELSE IF Len(s) <= mc THEN <<s>>
    ELSE <<SubSeq(s, 1, mc)>> \o hard_slices(SubSeq(s, mc + 1, Len(s)), mc)

\* lines 175-190: the loop over the sentences of paragraph number p, from
\* sentence k on, with buffer buf (whose first sentence is number bf) and the
\* parts acc built so far
RECURSIVE sentence_loop(_, _, _, _, _, _, _)
sentence_loop(sentences, k, mc, buf, bf, p, acc) ==
    IF k > Len(sentences)
    THEN IF buf # <<>> THEN Append(acc, Part(buf, "buf", p, bf, 0, 0)) ELSE acc
    ELSE LET s == sentences[k]
         IN  IF s = <<>> THEN sentence_loop(sentences, k + 1, mc, buf, bf, p, acc)
             ELSE IF fits(buf, s, mc)
             THEN sentence_loop(sentences, k + 1, mc, buf_add(buf, s),
                                IF buf # <<>> THEN bf ELSE k, p, acc)
             ELSE LET acc1 == IF buf # <<>>
                              THEN Append(acc, Part(buf, "buf", p, bf, 0, 0))
                              ELSE acc
                  IN  IF Len(s) <= mc
                      THEN sentence_loop(sentences, k + 1, mc, s, k, p, acc1)
                      ELSE LET sl == hard_slices(s, mc)
                           IN  sentence_loop(sentences, k + 1, mc, <<>>, 0, p,
                                   acc1 \o [j \in 1..Len(sl) |->
                                              Part(sl[j], "slice", p, k, j, Len(sl))])

\* lines 165-190: the loop over the paragraphs, from paragraph p on
RECURSIVE paragraph_loop(_, _, _, _)
paragraph_loop(paras, p, mc, acc) ==
    IF p > Len(paras) THEN acc
    ELSE LET para == strip(paras[p])
         IN  IF para = <<>> THEN paragraph_loop(paras, p + 1, mc, acc)
             ELSE IF Len(para) <= mc
             THEN paragraph_loop(paras, p + 1, mc,
                                 Append(acc, Part(para, "para", p, 1, 0, 0)))
             ELSE paragraph_loop(paras, p + 1, mc,
                      sentence_loop(split_sentences(para), 1, mc, <<>>, 0, p, acc))

\* lines 164-191, with each part's origin; "whole" is the [text] of line 191
split_parts(t, mc) ==
    LET ps == paragraph_loop(Split(t, <<NL, NL>>), 1, mc, <<>>)
    IN  IF ps # <<>> THEN ps ELSE <<Part(t, "whole", 0, 0, 0, 0)>>

\* split_chunks(text, max_chars): the list of strings returned
split_chunks(t, mc) ==
    LET ps == split_parts(t, mc) IN [i \in 1..Len(ps) |-> ps[i].s]

(***************************************************************************)
(* Values of the variables a specification does not use                    *)
(***************************************************************************)
NoSrc == [suffix |-> <<>>, txt |-> <<>>, paras |-> <<>>]

BuildIdle ==
    /\ per_chapter = FALSE
    /\ chapter_gap_ms = 0
    /\ ci = 0
    /\ idx = 0
    /\ assembled = <<>>
    /\ combined = <<>>
    /\ tmpfs = {}
    /\ outfs = {}
    /\ calls = <<>>
    /\ tracks = <<>>

BuildVars == <<per_chapter, chapter_gap_ms, ci, idx, assembled, combined,
               tmpfs, outfs, calls, tracks>>

(***************************************************************************)
(* Specification SpecChunk: split_chunks applied to every text over        *)
(* ChunkAlphabet of at most MaxLen characters, and to the text "A. B. C.", *)
(* with max_chars in 1..MaxChars                                           *)
(***************************************************************************)
MaxLen == 7
MaxChars == 4

ChunkAlphabet == {"a", ".", SP, NL}
ExampleABC == <<"A", ".", SP, "B", ".", SP, "C", ".">>
ChunkTexts ==
    UNION {[1..n -> ChunkAlphabet] : n \in 0..MaxLen} \cup {ExampleABC}

InitChunk ==
    /\ pc = "split_chunks"
    /\ text \in ChunkTexts
    /\ max_chars \in 1..MaxChars
    /\ parts = <<>>
    /\ src = NoSrc
    /\ chapters = <<>>
    /\ BuildIdle

\* the call split_chunks(text, max_chars), lines 159-191
SplitChunks ==
    /\ pc = "split_chunks"
    /\ parts' = split_parts(text, max_chars)
    /\ pc' = "split_returned"
    /\ UNCHANGED <<src, chapters, text, max_chars, BuildVars>>

NextChunk == SplitChunks

SpecChunk == InitChunk /\ [][NextChunk]_vars

\* the strings of a list of parts
Texts(ps) == [i \in 1..Len(ps) |-> ps[i].s]

\* the sentence that part q starts with
FirstSentence(t, q) ==
    split_sentences(strip(Split(t, <<NL, NL>>)[q.para]))[q.first]

\* every maximal run of whitespace replaced by one space, then trimmed
RECURSIVE Normalize(_)
Normalize(s) ==
    LET t == strip(s)
        ws == {i \in 1..Len(t) : IsSpace(t[i])}
    IN  IF ws = {} THEN t
        ELSE LET i == SetMin(ws)
             IN  SubSeq(t, 1, i - 1) \o <<SP>> \o Normalize(SubSeq(t, i, Len(t)))

\* C3: for every text whose trimmed form is non-empty and every max_chars > 0,
\* split_chunks returns a non-empty list, every chunk is non-empty and at most
\* max_chars long, and every slice of a hard-split sentence but its last is
\* exactly max_chars long.
C3_ChunksBounded ==
    (pc = "split_returned" /\ strip(text) # <<>>) =>
        /\ parts # <<>>
        /\ \A i \in 1..Len(parts) :
              /\ parts[i].s # <<>>
              /\ Len(parts[i].s) <= max_chars
              /\ (parts[i].kind = "slice" /\ parts[i].k < parts[i].n)
                    => Len(parts[i].s) = max_chars

\* a returned list that holds a first slice of a hard-split sentence and a
\* chunk built by accumulation
C3_Witness ==
    /\ pc = "split_returned"
    /\ strip(text) # <<>>
    /\ \E i \in 1..Len(parts) : parts[i].kind = "slice" /\ parts[i].k < parts[i].n
    /\ \E i \in 1..Len(parts) : parts[i].kind = "buf"

\* C4 as claimed: for every text and every max_chars > 0, the chunks joined by
\* one space equal the text up to runs of whitespace.
C4_JoinReproducesText ==
    pc = "split_returned" =>
        Normalize(Join(Texts(parts), <<SP>>)) = Normalize(text)

\* C4 as amended: the same, for every text of which no sentence is hard-split.
C4_JoinReproducesUnlessHardSplit ==
    (pc = "split_returned" /\ \A i \in 1..Len(parts) : parts[i].kind # "slice") =>
        Normalize(Join(Texts(parts), <<SP>>)) = Normalize(text)

\* a returned list without slices that holds a chunk of two or more sentences
\* and a chunk after it
C4_Witness ==
    /\ pc = "split_returned"
    /\ \A i \in 1..Len(parts) : parts[i].kind # "slice"
    /\ \E i \in 1..(Len(parts) - 1) :
          /\ parts[i].kind = "buf"
          /\ parts[i + 1].para = parts[i].para
          /\ parts[i + 1].first > parts[i].first + 1

\* whether part q begins at the start of a sentence of a split paragraph
StartsSentence(q) == q.kind = "buf" \/ (q.kind = "slice" /\ q.k = 1)

\* the hard-split clause and the example of C10
C10_Rest ==
    /\ \A i \in 1..Len(parts) :
          parts[i].kind = "slice" => Len(FirstSentence(text, parts[i])) > max_chars
    /\ (text = ExampleABC /\ max_chars = 4) =>
          Texts(parts) = << <<"A", ".">>, <<"B", ".">>, <<"C", ".">> >>

\* C10 as claimed: every chunk c that is followed in its paragraph by a
\* sentence s starting the next chunk has len(c) + 1 + len(s) > max_chars; a
\* sentence is hard-split only when longer than max_chars; "A. B. C." with
\* max_chars 4 gives ["A.", "B.", "C."].
C10_GreedyEveryChunk ==
    pc = "split_returned" =>
        /\ \A i \in 1..(Len(parts) - 1) :
              (parts[i].kind \in {"buf", "slice"}
                 /\ parts[i + 1].para = parts[i].para
                 /\ StartsSentence(parts[i + 1]))
              => Len(parts[i].s) + 1 + Len(FirstSentence(text, parts[i + 1])) > max_chars
        /\ C10_Rest

\* C10 as amended: the same, for every chunk c built by sentence accumulation
\* (the last slice of a hard-split sentence is never joined with the next
\* sentence, however short both are).
C10_GreedyAccumulated ==
    pc = "split_returned" =>
        /\ \A i \in 1..(Len(parts) - 1) :
              (parts[i].kind = "buf"
                 /\ parts[i + 1].para = parts[i].para
                 /\ StartsSentence(parts[i + 1]))
              => Len(parts[i].s) + 1 + Len(FirstSentence(text, parts[i + 1])) > max_chars
        /\ C10_Rest

\* a returned list in which an accumulated chunk of two sentences is followed
\* by a chunk of the same paragraph
C10_Witness ==
    /\ pc = "split_returned"
    /\ \E i \in 1..(Len(parts) - 1) :
          /\ parts[i].kind = "buf"
          /\ parts[i + 1].para = parts[i].para
          /\ StartsSentence(parts[i + 1])
          /\ parts[i + 1].first = parts[i].first + 2

(***************************************************************************)
(* Specification SpecSeg: read_chapters applied to every plain-text file   *)
(* of at most MaxLines lines drawn from TxtLines, to the text of the       *)
(* "Luku 1" scenario, and to every DOCX document of at most MaxParas       *)
(* paragraphs drawn from DocxParas                                         *)
(***************************************************************************)
MaxLines == 4
MaxParas == 4

TxtLines ==
    { <<"O","s","a",SP,"1">>,       \* numbered keyword
      <<"o","s","a">>,              \* bare keyword, lower case
      <<"O","s","a","t">>,          \* a word that starts with a keyword
      <<SP,"O","s","a">>,           \* a keyword not at the start of the line
      <<"a",".">>,
      <<SP>>,
      <<>> }

ExampleLuku ==
    <<"L","u","k","u",SP,"1",NL,
      "H","e","l","l","o",SP,"w","o","r","l","d",".",NL,
      NL,
      "L","u","k","u",SP,"2",NL,
      "B","y","e",".">>

SeqsUpTo(S, n) == UNION {[1..k -> S] : k \in 0..n}

TxtDocs == {Join(ls, <<NL>>) : ls \in SeqsUpTo(TxtLines, MaxLines)} \cup {ExampleLuku}

StyleNormal == <<"N","o","r","m","a","l">>
StyleHeading1 == <<"H","e","a","d","i","n","g",SP,"1">>
StyleHeading3 == <<"H","e","a","d","i","n","g",SP,"3">>
StyleOtsikko2 == <<"O","t","s","i","k","k","o",SP,"2",SP,"C","h","a","r">>

DocxParas ==
    { [style |-> StyleNormal,   text |-> <<"a",".">>],
      [style |-> StyleNormal,   text |-> <<SP>>],
      [style |-> StyleNormal,   text |-> <<"O","s","a",SP,"1">>],
      [style |-> StyleHeading1, text |-> <<SP,"T",SP>>],
      [style |-> StyleHeading3, text |-> <<"b">>],
      [style |-> StyleOtsikko2, text |-> <<"U",NL,NL,NL,"V">>] }

SegSrcs ==
    {[suffix |-> DotTxt, txt |-> t, paras |-> <<>>] : t \in TxtDocs}
      \cup {[suffix |-> DotDocx, txt |-> <<>>, paras |-> ps] :
               ps \in SeqsUpTo(DocxParas, MaxParas)}

InitSeg ==
    /\ pc = "read_chapters"
    /\ src \in SegSrcs
    /\ chapters = <<>>
    /\ text = <<>>
    /\ max_chars = 0
    /\ parts = <<>>
    /\ BuildIdle

\* the call read_chapters(src), lines 150-154
ReadChapters ==
    /\ pc = "read_chapters"
    /\ chapters' = read_chapters(src)
    /\ pc' = "read_returned"
    /\ UNCHANGED <<src, text, max_chars, parts, BuildVars>>

NextSeg == ReadChapters

SpecSeg == InitSeg /\ [][NextSeg]_vars

\* The items of the document as the claims speak of them: the lines of a
\* plain text, the non-empty paragraphs of a DOCX document; each with its
\* text, whether it is a chapter-start trigger, and the title it gives.
SegItems(s) ==
    IF is_docx(s)
    THEN LET items == docx_items(s.paras)
         IN  [i \in 1..Len(items) |->
                [text |-> items[i].text, trig |-> is_trigger_item(items[i]),
                 title |-> items[i].text]]
    ELSE LET ls == splitlines(s.txt)
         IN  [i \in 1..Len(ls) |->
                [text |-> rstrip(ls[i]), trig |-> is_trigger_line(rstrip(ls[i])),
                 title |-> strip(ls[i])]]

SegSep(s) == IF is_docx(s) THEN <<NL, NL>> ELSE <<NL>>
SegPlaceholder(s) == IF is_docx(s) THEN Untitled ELSE ChapterN(1)

\* the whole text of the document
WholeText(s) ==
    IF is_docx(s)
    THEN LET items == docx_items(s.paras)
         IN  Join([i \in 1..Len(items) |-> items[i].text], <<NL, NL>>)
    ELSE s.txt

\* the maximal runs <<a, b>> of non-trigger items
Runs(items) ==
    {r \in (1..Len(items)) \X (1..Len(items)) :
        /\ r[1] <= r[2]
        /\ \A i \in r[1]..r[2] : ~items[i].trig
        /\ (r[1] = 1 \/ items[r[1] - 1].trig)
        /\ (r[2] = Len(items) \/ items[r[2] + 1].trig)}

RunText(s, items, r) ==
    strip(Join([i \in 1..(r[2] - r[1] + 1) |-> items[r[1] + i - 1].text], SegSep(s)))

\* the runs whose joined text is non-empty after trimming
KeptRuns(s) == LET items == SegItems(s) IN {r \in Runs(items) : RunText(s, items, r) # <<>>}

\* C1 as claimed: for every document the segmenter returns a non-empty list
\* of chapters, and the text of every chapter is non-empty after trimming.
C1_ChaptersNonEmpty ==
    pc = "read_returned" =>
        /\ chapters # <<>>
        /\ \A i \in 1..Len(chapters) : strip(chapters[i].text) # <<>>

\* C1 as amended: for every document the segmenter returns a non-empty list
\* of chapters; the text of every chapter is non-empty after trimming when
\* the document holds a character that is not whitespace; for a document that
\* holds none the list is the one fallback chapter "Book" with empty text.
C1_ChaptersNonEmptyUnlessBlank ==
    pc = "read_returned" =>
        /\ chapters # <<>>
        /\ strip(WholeText(src)) # <<>> =>
              \A i \in 1..Len(chapters) : strip(chapters[i].text) # <<>>
        /\ strip(WholeText(src)) = <<>> => chapters = <<Chapter(Book, <<>>)>>

\* the fallback chapter of a document that holds trigger items only
C1_Witness ==
    /\ pc = "read_returned"
    /\ SegItems(src) # <<>>
    /\ \A i \in 1..Len(SegItems(src)) :
          SegItems(src)[i].trig \/ SegItems(src)[i].text = <<>>
    /\ \E i \in 1..Len(SegItems(src)) : SegItems(src)[i].trig
    /\ Len(chapters) = 1
    /\ chapters[1].title = Book
    /\ chapters[1].text # <<>>

\* C2: a document with a non-blank item and no trigger item gives exactly one
\* chapter, titled "Book", whose text is the whole text with runs of three or
\* more newlines collapsed, trimmed.
C2_NoTriggerGivesBook ==
    (/\ pc = "read_returned"
     /\ \E i \in 1..Len(SegItems(src)) : strip(SegItems(src)[i].text) # <<>>
     /\ \A i \in 1..Len(SegItems(src)) : ~SegItems(src)[i].trig)
    => chapters = <<Chapter(Book, strip(collapse_newlines(WholeText(src))))>>

\* C9: when some run of non-trigger items has text, the chapters are, in
\* order, those runs: the text of each is the joined items of its run, trimmed,
\* and its title is the trimmed text of the trigger before the run (the
\* placeholder for a run before the first trigger), so that a trigger with no
\* body gives no chapter; without such a run the one chapter is the fallback;
\* "Luku 1\nHello world.\n\nLuku 2\nBye." gives ("Luku 1", "Hello world.") and
\* ("Luku 2", "Bye.").
C9_ChaptersAreRuns ==
    pc = "read_returned" =>
        LET items == SegItems(src)
            kept == KeptRuns(src)
            rank(r) == Cardinality({q \in kept : q[1] <= r[1]})
        IN  /\ kept # {} =>
                 /\ Len(chapters) = Cardinality(kept)
                 /\ \A r \in kept :
                       chapters[rank(r)] =
                           Chapter(IF r[1] = 1 THEN SegPlaceholder(src)
                                   ELSE items[r[1] - 1].title,
                                   RunText(src, items, r))
            /\ kept = {} => (Len(chapters) = 1 /\ chapters[1].title = Book)
            /\ src.txt = ExampleLuku =>
                 chapters = << Chapter(<<"L","u","k","u",SP,"1">>,
                                       <<"H","e","l","l","o",SP,"w","o","r","l","d",".">>),
                               Chapter(<<"L","u","k","u",SP,"2">>, <<"B","y","e",".">>) >>

\* two chapters of which the second follows a trigger that itself follows a
\* trigger with no body
C9_Witness ==
    /\ pc = "read_returned"
    /\ Len(chapters) = 2
    /\ \E i \in 1..(Len(SegItems(src)) - 2) :
          /\ SegItems(src)[i].trig
          /\ SegItems(src)[i + 1].trig
          /\ SegItems(src)[i].title # SegItems(src)[i + 1].title
          /\ <<i + 2, i + 2>> \in KeptRuns(src)

(***************************************************************************)
(* Specification SpecBuild: build, with synth_chapter inlined, run on      *)
(* every plain-text file of at most MaxBuildLines lines drawn from         *)
(* BuildLines and on the documents of BuildExtra. Every call of a          *)
(* collaborator that can raise (the synthesis backend, the decoder, the    *)
(* exports) has an action for its success and one for its failure.         *)
(***************************************************************************)
MaxBuildLines == 5

\* max_chars of the call of line 208
TtsMaxChars == 2200
\* duration of the pause of line 209
PauseMs == 800
\* default of chapter_gap_ms, line 232
DefaultGapMs == 1200

BuildLines == { <<"o","s","a">>, <<"a",".">>, <<>> }

\* two chapters whose titles differ and whose slugs are equal
SameSlugTxt == <<"o","s","a",NL,"a",".",NL,"o","s","a","!",NL,"a",".">>

BuildExtra ==
    { [suffix |-> DotTxt, txt |-> SameSlugTxt, paras |-> <<>>],
      [suffix |-> <<".","D","O","C","X">>, txt |-> <<>>,
       paras |-> << [style |-> StyleHeading1, text |-> <<"T">>],
                    [style |-> StyleNormal,   text |-> <<"a",".">>],
                    [style |-> StyleNormal,   text |-> <<"b",".">>] >>] }

BuildSrcs ==
    {[suffix |-> DotTxt, txt |-> Join(ls, <<NL>>), paras |-> <<>>] :
        ls \in SeqsUpTo(BuildLines, MaxBuildLines)} \cup BuildExtra

\* An AudioSegment is the sequence of what is heard: the speech of one
\* synthesis call, or a silence.
Speech(c, i, t) == [kind |-> "speech", ci |-> c, idx |-> i, text |-> t]
Silence(ms) == [kind |-> "silence", ci |-> 0, idx |-> 0, text |-> <<>>, ms |-> ms]

DotMp3 == <<".","m","p","3">>

\* line 212: f"{slugify(chapter.title)}_{idx:04d}.mp3" in tmpdir
part_file(title, i) == slugify(title) \o <<"_">> \o ZeroPad(i, 4) \o DotMp3

\* line 253: f"{idx+1:02d}_{slugify(ch.title)}.mp3" in outdir
chapter_file(c, title) == ZeroPad(c + 1, 2) \o <<"_">> \o slugify(title) \o DotMp3

\* default of combined_name, line 231
combined_name ==
    <<"b","o","o","k","_","c","o","m","b","i","n","e","d">> \o DotMp3

\* a file written (created or overwritten) in a directory
fs_write(fs, path, data) ==
    {f \in fs : f.path # path} \cup {[path |-> path, data |-> data]}
fs_read(fs, path) == (CHOOSE f \in fs : f.path = path).data

\* line 246 leaving the directory behind when the block is left by an exception
tmpdir_exit_leak(fs, raised) == IF raised THEN fs ELSE {}
\* line 246: TemporaryDirectory.__exit__, on leaving the with block normally
\* or by an exception
tmpdir_exit(fs, raised) == {}

InitBuild ==
    /\ pc = "build"
    /\ src \in BuildSrcs
    /\ per_chapter \in BOOLEAN
    /\ chapter_gap_ms \in {DefaultGapMs, PauseMs}
    /\ chapters = <<>>
    /\ text = <<>>
    /\ max_chars = 0
    /\ parts = <<>>
    /\ ci = 0
    /\ idx = 0
    /\ assembled = <<>>
    /\ combined = <<>>
    /\ tmpfs = {}
    /\ outfs = {}
    /\ calls = <<>>
    /\ tracks = <<>>

\* lines 242-247: the chapters are read, outdir and the temporary directory made
BuildStart ==
    /\ pc = "build"
    /\ chapters' = read_chapters(src)
    /\ combined' = <<>>
    /\ tmpfs' = {}
    /\ ci' = 0
    /\ pc' = "chapter_loop"
    /\ UNCHANGED <<src, text, max_chars, parts, per_chapter, chapter_gap_ms,
                   idx, assembled, outfs, calls, tracks>>

\* lines 242-243 raising: the source cannot be read, outdir cannot be made
BuildStartFail ==
    /\ pc = "build"
    /\ pc' = "raised"
    /\ UNCHANGED <<src, chapters, text, max_chars, parts, BuildVars>>

\* line 248 with a next chapter: synth_chapter is entered, lines 208-210
ChapterNext ==
    /\ pc = "chapter_loop"
    /\ ci < Len(chapters)
    /\ parts' = split_chunks(chapters[ci + 1].text, TtsMaxChars)
    /\ assembled' = <<>>
    /\ idx' = 0
    /\ pc' = "part_loop"
    /\ UNCHANGED <<src, chapters, text, max_chars, per_chapter, chapter_gap_ms,
                   ci, combined, tmpfs, outfs, calls, tracks>>

\* line 248 with no chapter left: the with block of line 246 is left
ChaptersDone ==
    /\ pc = "chapter_loop"
    /\ ci >= Len(chapters)
    /\ tmpfs' = tmpdir_exit(tmpfs, FALSE)
    /\ pc' = "export_combined"
    /\ UNCHANGED <<src, chapters, text, max_chars, parts, per_chapter,
                   chapter_gap_ms, ci, idx, assembled, combined, outfs, calls, tracks>>

\* lines 211-213 with a next part: synth_to_file is called and awaited
SynthCall ==
    /\ pc = "part_loop"
    /\ idx < Len(parts)
    /\ calls' = Append(calls,
                   [ci |-> ci, idx |-> idx, text |-> parts[idx + 1],
                    path |-> part_file(chapters[ci + 1].title, idx),
                    status |-> "pending"])
    /\ pc' = "await_synth"
    /\ UNCHANGED <<src, chapters, text, max_chars, parts, per_chapter,
                   chapter_gap_ms, ci, idx, assembled, combined, tmpfs, outfs, tracks>>

\* lines 211 and 217 with no part left: synth_chapter returns assembled
SynthChapterReturn ==
    /\ pc = "part_loop"
    /\ idx >= Len(parts)
    /\ tracks' = Append(tracks, assembled)
    /\ pc' = "export_chapter"
    /\ UNCHANGED <<src, chapters, text, max_chars, parts, per_chapter,
                   chapter_gap_ms, ci, idx, assembled, combined, tmpfs, outfs, calls>>

\* the exception of the awaited call swallowed and the part skipped
SynthFailSkip ==
    /\ pc = "await_synth"
    /\ calls' = [calls EXCEPT ![Len(calls)].status = "failed"]
    /\ idx' = idx + 1
    /\ pc' = "part_loop"
    /\ UNCHANGED <<src, chapters, text, max_chars, parts, per_chapter,
                   chapter_gap_ms, ci, assembled, combined, tmpfs, outfs, tracks>>

\* lines 202, 213: the awaited call completes, the file is written
SynthOk ==
    /\ pc = "await_synth"
    /\ LET c == calls[Len(calls)]
       IN  tmpfs' = fs_write(tmpfs, c.path, <<Speech(c.ci, c.idx, c.text)>>)
    /\ calls' = [calls EXCEPT ![Len(calls)].status = "ok"]
    /\ pc' = "from_file"
    /\ UNCHANGED <<src, chapters, text, max_chars, parts, per_chapter,
                   chapter_gap_ms, ci, idx, assembled, combined, outfs, tracks>>

\* lines 202, 213: the awaited call raises, with the file written in part or
\* not at all; the exception leaves synth_chapter, the with block and build
SynthFail ==
    /\ pc = "await_synth"
    /\ \E partial \in BOOLEAN :
          LET c == calls[Len(calls)]
              fs == IF partial THEN fs_write(tmpfs, c.path, <<>>) ELSE tmpfs
          IN  tmpfs' = tmpdir_exit(fs, TRUE)
    /\ calls' = [calls EXCEPT ![Len(calls)].status = "failed"]
    /\ pc' = "raised"
    /\ UNCHANGED <<src, chapters, text, max_chars, parts, per_chapter,
                   chapter_gap_ms, ci, idx, assembled, combined, outfs, tracks>>

\* lines 214-216 with the pause added after every part
FromFilePauseAlways ==
    /\ pc = "from_file"
    /\ assembled' = assembled
                      \o fs_read(tmpfs, part_file(chapters[ci + 1].title, idx))
                      \o <<Silence(PauseMs)>>
    /\ idx' = idx + 1
    /\ pc' = "part_loop"
    /\ UNCHANGED <<src, chapters, text, max_chars, parts, per_chapter,
                   chapter_gap_ms, ci, combined, tmpfs, outfs, calls, tracks>>

\* lines 214-216: the file is decoded and appended, then the pause unless the
\* part is the last; the loop goes on to the next part
FromFile ==
    /\ pc = "from_file"
    /\ assembled' = assembled
                      \o fs_read(tmpfs, part_file(chapters[ci + 1].title, idx))
                      \o (IF idx < Len(parts) - 1 THEN <<Silence(PauseMs)>> ELSE <<>>)
    /\ idx' = idx + 1
    /\ pc' = "part_loop"
    /\ UNCHANGED <<src, chapters, text, max_chars, parts, per_chapter,
                   chapter_gap_ms, ci, combined, tmpfs, outfs, calls, tracks>>

\* line 214 raising: the file cannot be decoded
FromFileFail ==
    /\ pc = "from_file"
    /\ tmpfs' = tmpdir_exit(tmpfs, TRUE)
    /\ pc' = "raised"
    /\ UNCHANGED <<src, chapters, text, max_chars, parts, per_chapter,
                   chapter_gap_ms, ci, idx, assembled, combined, outfs, calls, tracks>>

\* lines 252-263: the chapter is exported when per_chapter, appended to
\* combined, then the gap unless the chapter is the last
ChapterDone ==
    /\ pc = "export_chapter"
    /\ LET seg == tracks[Len(tracks)]
       IN  /\ outfs' = IF per_chapter
                       THEN fs_write(outfs, chapter_file(ci, chapters[ci + 1].title), seg)
                       ELSE outfs
           /\ combined' = combined \o seg
                            \o (IF ci < Len(chapters) - 1
                                THEN <<Silence(chapter_gap_ms)>> ELSE <<>>)
    /\ ci' = ci + 1
    /\ pc' = "chapter_loop"
    /\ UNCHANGED <<src, chapters, text, max_chars, parts, per_chapter,
                   chapter_gap_ms, idx, assembled, tmpfs, calls, tracks>>

\* line 255 raising, with the chapter file written in part or not at all
ChapterExportFail ==
    /\ pc = "export_chapter"
    /\ per_chapter
    /\ \E partial \in BOOLEAN :
          outfs' = IF partial
                   THEN fs_write(outfs, chapter_file(ci, chapters[ci + 1].title), <<>>)
                   ELSE outfs
    /\ tmpfs' = tmpdir_exit(tmpfs, TRUE)
    /\ pc' = "raised"
    /\ UNCHANGED <<src, chapters, text, max_chars, parts, per_chapter,
                   chapter_gap_ms, ci, idx, assembled, combined, calls, tracks>>

\* lines 266-271: the combined file is exported and its path returned
CombinedExport ==
    /\ pc = "export_combined"
    /\ outfs' = fs_write(outfs, combined_name, combined)
    /\ pc' = "returned"
    /\ UNCHANGED <<src, chapters, text, max_chars, parts, per_chapter,
                   chapter_gap_ms, ci, idx, assembled, combined, tmpfs, calls, tracks>>

\* line 267 raising, with the combined file written in part or not at all
CombinedExportFail ==
    /\ pc = "export_combined"
    /\ \E partial \in BOOLEAN :
          outfs' = IF partial THEN fs_write(outfs, combined_name, <<>>) ELSE outfs
    /\ pc' = "raised"
    /\ UNCHANGED <<src, chapters, text, max_chars, parts, per_chapter,
                   chapter_gap_ms, ci, idx, assembled, combined, tmpfs, calls, tracks>>

NextBuild ==
    \/ BuildStart
    \/ BuildStartFail
    \/ ChapterNext
    \/ ChaptersDone
    \/ SynthCall
    \/ SynthChapterReturn
    \/ SynthOk
    \/ SynthFail
    \/ FromFile
    \/ FromFileFail
    \/ ChapterDone
    \/ ChapterExportFail
    \/ CombinedExport
    \/ CombinedExportFail

SpecBuild == InitBuild /\ [][NextBuild]_vars

\* the synthesis calls of a whole build: the chapters from number c on in
\* order, the chunks of each in the order of split_chunks
RECURSIVE FlatFrom(_, _)
FlatFrom(chs, c) ==
    IF c > Len(chs) THEN <<>>
    ELSE LET ps == split_chunks(chs[c].text, TtsMaxChars)
         IN  [j \in 1..Len(ps) |-> [ci |-> c - 1, idx |-> j - 1, text |-> ps[j]]]
               \o FlatFrom(chs, c + 1)

\* C5: in every run of build the synthesis calls issued so far are a prefix of
\* the chunks of the chapters in order; a call is issued only when every
\* earlier call has completed without failure (none is pending, none is
\* retried or skipped, none follows a failed call); a build that returns has
\* issued the whole list.
C5_CallsArePrefix ==
    LET flat == FlatFrom(chapters, 1)
        n == Len(calls)
    IN  /\ n <= Len(flat)
        /\ \A k \in 1..n :
              [ci |-> calls[k].ci, idx |-> calls[k].idx, text |-> calls[k].text] = flat[k]
        /\ \A k \in 1..(n - 1) : calls[k].status = "ok"
        /\ (n > 0 /\ calls[n].status = "pending") <=> pc = "await_synth"
        /\ pc = "returned" =>
              (n = Len(flat) /\ \A k \in 1..n : calls[k].status = "ok")

\* a build ended by the failure of a call that was neither the first call nor
\* the last of the list
C5_Witness ==
    /\ pc = "raised"
    /\ Len(calls) >= 2
    /\ calls[Len(calls)].status = "failed"
    /\ Len(calls) < Len(FlatFrom(chapters, 1))

\* the track of chapter number i: its chunk audios with one pause between
\* each two
ExpectedTrack(i) ==
    LET ps == split_chunks(chapters[i].text, TtsMaxChars)
    IN  [j \in 1..(2 * Len(ps) - 1) |->
            IF j % 2 = 1 THEN Speech(i - 1, (j - 1) \div 2, ps[(j + 1) \div 2])
            ELSE Silence(PauseMs)]

\* the tracks from number i on with one gap between each two
RECURSIVE ExpectedCombined(_)
ExpectedCombined(i) ==
    IF i > Len(chapters) THEN <<>>
    ELSE ExpectedTrack(i)
           \o (IF i < Len(chapters) THEN <<Silence(chapter_gap_ms)>> ELSE <<>>)
           \o ExpectedCombined(i + 1)

\* C6: every chapter track is the chapter's chunk audios in order with one
\* silence of 800 ms between each two and none before the first or after the
\* last; in a build that returns, the combined track is the chapter tracks in
\* order with one silence of chapter_gap_ms between each two and none before
\* the first or after the last.
C6_TracksAndGaps ==
    /\ \A i \in 1..Len(tracks) : tracks[i] = ExpectedTrack(i)
    /\ pc = "returned" =>
          /\ Len(tracks) = Len(chapters)
          /\ combined = ExpectedCombined(1)
          /\ fs_read(outfs, combined_name) = combined

\* a build that returned, of two or more chapters, one of them of two or more
\* chunks
C6_Witness ==
    /\ pc = "returned"
    /\ Len(chapters) >= 2
    /\ \E i \in 1..Len(tracks) : Len(tracks[i]) >= 3

\* C7: within one build, the temporary files of two different (chapter, chunk)
\* pairs have different paths.
C7_DistinctTempPaths ==
    \A a, b \in 1..Len(calls) :
        <<calls[a].ci, calls[a].idx>> # <<calls[b].ci, calls[b].idx>>
            => calls[a].path # calls[b].path

\* C8: once build has ended, by returning or by raising, no file is left in
\* its temporary directory.
C8_NoTempFilesAfterExit ==
    pc \in {"returned", "raised"} => tmpfs = {}

\* a build that raised after two or more chunks were synthesized to files
C8_Witness ==
    /\ pc = "raised"
    /\ Cardinality({k \in 1..Len(calls) : calls[k].status = "ok"}) >= 2

====
